---- MODULE Spec2Model ----
(***************************************************************************)
(* Model of the retrieval-augmented clause-compliance pipeline of          *)
(* utils/rag_utils.py and of its caller app.py.                            *)
(*                                                                         *)
(* Three state machines share the variables:                               *)
(*   Spec      - one caller running check_clause_with_rag (the judge) and, *)
(*               inside it, _call_llm_tolerant (the generation adapter),   *)
(*               one backend call per step;                                *)
(*   SpecBuild - several callers (UI sessions, API users) running          *)
(*               build_vector_store and load_vector_store against one      *)
(*               persisted index location.                                 *)
(*   SpecSession - UI sessions running the app.py script: the rebuild      *)
(*               button, the cached store handle, the RAG checks.          *)
(*                                                                         *)
(* A text is a sequence of tokens (strings); Python's None, booleans and   *)
(* strings are tagged values [t, v] so that every field has one shape.     *)
(***************************************************************************)
EXTENDS Integers, Sequences, FiniteSets, TLC

\* ---------------------------------------------------------------- bounds
\* longest backend response, in tokens
MaxLen == 3
\* most fragments a store of the judge holds
MaxFrags == 4
\* callers of build/load (UI sessions)
NumCallers == 2

\* ---------------------------------------------------------------- texts
LB == "{"
RB == "}"
WS == " "
PROSE == "I cannot assess this."
\* the member list "compliant":false,"issue":"i","suggestion":"s","citation":"c"
M_WELL == "\"compliant\":false,\"issue\":\"i\",\"suggestion\":\"s\",\"citation\":\"c\""
\* the member "compliant":"maybe"
M_BADC == "\"compliant\":\"maybe\""

Alphabet == {LB, RB, WS, PROSE, M_WELL, M_BADC}

Texts == UNION {[1..n -> Alphabet] : n \in 0..MaxLen}

\* tagged values
NoneV == [t |-> "null", v |-> <<>>]
StrV(s) == [t |-> "str", v |-> s]
BoolV(b) == [t |-> "bool", v |-> <<IF b THEN "true" ELSE "false">>]

\* str.strip(): leading and trailing whitespace removed
RECURSIVE LStrip(_)
LStrip(s) == IF s # <<>> /\ Head(s) = WS THEN LStrip(Tail(s)) ELSE s

RECURSIVE RStrip(_)
RStrip(s) == IF s # <<>> /\ s[Len(s)] = WS THEN RStrip(SubSeq(s, 1, Len(s) - 1)) ELSE s

Strip(s) == RStrip(LStrip(s))

\* str.find(c): 0-based index of the first c, -1 when there is none
Find(s, c) ==
    LET hits == {i \in 1..Len(s) : s[i] = c}
    IN  IF hits = {} THEN -1 ELSE (CHOOSE i \in hits : \A j \in hits : i <= j) - 1

\* str.rfind(c): 0-based index of the last c, -1 when there is none
RFind(s, c) ==
    LET hits == {i \in 1..Len(s) : s[i] = c}
    IN  IF hits = {} THEN -1 ELSE (CHOOSE i \in hits : \A j \in hits : i >= j) - 1

\* s[start:end] with Python's treatment of negative and out-of-range indices
Slice(s, start, end) ==
    LET n  == Len(s)
        a0 == IF start < 0 THEN start + n ELSE start
        a  == IF a0 < 0 THEN 0 ELSE IF a0 > n THEN n ELSE a0
        b0 == IF end < 0 THEN end + n ELSE end
        b  == IF b0 < 0 THEN 0 ELSE IF b0 > n THEN n ELSE b0
    IN  IF a >= b THEN <<>> ELSE SubSeq(s, a + 1, b)

\* the object a member token contributes
MemberObj(tok) ==
    IF tok = M_WELL
    THEN [compliant |-> BoolV(FALSE), issue |-> StrV(<<"i">>),
          suggestion |-> StrV(<<"s">>), citation |-> StrV(<<"c">>)]
    ELSE [compliant |-> StrV(<<"maybe">>)]

IsMember(tok) == tok \in {M_WELL, M_BADC}

EmptyObj == [x \in {} |-> NoneV]

\* json.loads: [ok, obj]; ok = FALSE stands for JSONDecodeError.  Whitespace
\* between tokens is skipped; a document is "{" "}" or "{" members "}".
JsonLoads(s) ==
    LET toks == SelectSeq(s, LAMBDA c : c # WS)
    IN  IF Len(toks) = 2 /\ toks[1] = LB /\ toks[2] = RB
        THEN [ok |-> TRUE, obj |-> EmptyObj]
        ELSE IF Len(toks) = 3 /\ toks[1] = LB /\ IsMember(toks[2]) /\ toks[3] = RB
             THEN [ok |-> TRUE, obj |-> MemberObj(toks[2])]
             ELSE [ok |-> FALSE, obj |-> EmptyObj]

\* ---------------------------------------------------------------- judge
VARIABLES
    jpc,          \* where the judge call stands
    clause,       \* clause_text
    vectorstore,  \* [present, docs]: None, or the fragments ranked for the clause
    llm,          \* [present, hasPredict, hasGenerate]: None, or the backend's shape
    context,      \* the source-tagged context built from the retrieved fragments
    calls,        \* the backend calls made so far: [conv, outcome, text]
    raw,          \* what _call_llm_tolerant returned, once it has
    exc,          \* the exception in flight or raised: [type, msg]
    result        \* the dictionary returned to the caller, once returned

VARIABLES
    folder,       \* the reference folder: [exists, files]
    index,        \* the persisted index location: [dir, faiss, pkl]
    bpc,          \* per caller: where its build or load stands
    hf_model,     \* per caller: the embedding model identifier passed
    vs,           \* per caller: the in-memory store built or loaded
    berr          \* per caller: the exception raised to it

VARIABLES
    spc,          \* per session: where its script run stands
    cache,        \* per session: st.session_state.vectorstore, [set, present, store]
    msg,          \* per session: what the rebuild button reported in this run
    rag,          \* per session: what this run did with the RAG checks
    rendered      \* per session: a script run has completed (the page is up)

jvars == <<jpc, clause, vectorstore, llm, context, calls, raw, exc, result>>
bvars == <<folder, index, bpc, hf_model, vs, berr>>
svars == <<spc, cache, msg, rag, rendered>>
vars == <<jpc, clause, vectorstore, llm, context, calls, raw, exc, result,
          folder, index, bpc, hf_model, vs, berr,
          spc, cache, msg, rag, rendered>>

\* k of check_clause_with_rag, and the k app.py passes
K == 3

Clauses == {"Governed by DIFC courts.", ""}

\* a Document of the store: page_content and metadata (with or without 'source')
Frag(i) ==
    [page_content |-> IF i % 2 = 1
                      THEN <<"ADGM Courts have exclusive jurisdiction.">>
                      ELSE <<>>,
     has_source |-> i % 3 # 0,
     source |-> "legal_refs/adgm.txt"]

NoStore == [present |-> FALSE, docs |-> <<>>]
Stores == {[present |-> TRUE, docs |-> [i \in 1..n |-> Frag(i)]] : n \in 0..MaxFrags}

NoLlm == [present |-> FALSE, hasPredict |-> FALSE, hasGenerate |-> FALSE]
Llms == {[present |-> TRUE, hasPredict |-> p, hasGenerate |-> g] : p, g \in BOOLEAN}

\* messages of the exceptions a backend call raises
BackendErrors == {<<"timeout">>}

NoExc == [type |-> "none", msg |-> <<>>]

\* a search that ignores k
SimilaritySearchAll(store, k) == store.docs

\* vectorstore.similarity_search(clause_text, k): the docs are kept in the
\* order of their similarity to the clause, the search returns the first k
SimilaritySearch(store, k) ==
    SubSeq(store.docs, 1, IF Len(store.docs) < k THEN Len(store.docs) ELSE k)

SEP == "\n\n---\n\n"

\* d.page_content + f"\n\n[SOURCE: {d.metadata.get('source','unknown')}]"
RenderDoc(d) ==
    d.page_content \o <<"\n\n[SOURCE: ", IF d.has_source THEN d.source ELSE "unknown", "]">>

\* "\n\n---\n\n".join(...)
RECURSIVE Join(_)
Join(parts) ==
    IF parts = <<>> THEN <<>>
    ELSE IF Len(parts) = 1 THEN parts[1]
    ELSE parts[1] \o <<SEP>> \o Join(Tail(parts))

Context(docs) == Join([i \in 1..Len(docs) |-> RenderDoc(docs[i])])

Judgment(c, i, s, ci) == [compliant |-> c, issue |-> i, suggestion |-> s, citation |-> ci]

NoResult == [x \in {} |-> NoneV]

\* the fallback dictionary built from the extracted substring, not from raw
ExtractJsonFromSlice(rawtext, ctx) ==
    LET json_text == Slice(rawtext, Find(rawtext, LB), RFind(rawtext, RB) + 1)
        data == JsonLoads(json_text)
    IN  IF data.ok THEN data.obj
        ELSE Judgment(NoneV, StrV(json_text), NoneV, StrV(ctx))

\* lines 153-161: the JSON object between the first "{" and the last "}", or
\* the fallback dictionary when json.loads raises
ExtractJson(rawtext, ctx) ==
    LET start == Find(rawtext, LB)
        end == RFind(rawtext, RB) + 1
        json_text == Slice(rawtext, start, end)
        data == JsonLoads(json_text)
    IN  IF data.ok THEN data.obj
        ELSE Judgment(NoneV, StrV(rawtext), NoneV, StrV(ctx))

\* lines 150-151: the adapter's exception e, absorbed
LlmErrorJudgment(e, ctx) ==
    Judgment(NoneV, StrV(<<"LLM error: ">> \o e.msg), NoneV, StrV(ctx))

\* line 115
LlmCallFailed(m) == [type |-> "RuntimeError", msg |-> <<"LLM call failed: ">> \o m]

JInit ==
    /\ jpc = "idle"
    /\ clause = ""
    /\ vectorstore = NoStore
    /\ llm = NoLlm
    /\ context = <<>>
    /\ calls = <<>>
    /\ raw = NoneV
    /\ exc = NoExc
    /\ result = NoResult

\* _call_llm_tolerant returned text to line 149; lines 153-161 follow
AdapterReturns(text) ==
    /\ raw' = StrV(text)
    /\ result' = ExtractJson(text, context)
    /\ jpc' = "returned"
    /\ UNCHANGED exc

\* _call_llm_tolerant raised e to line 150; line 151 follows
AdapterRaises(e) ==
    /\ exc' = e
    /\ result' = LlmErrorJudgment(e, context)
    /\ jpc' = "returned"
    /\ UNCHANGED raw

Called(conv, outcome, text) == [conv |-> conv, outcome |-> outcome, text |-> text]

\* lines 135-147, and lines 73-74 of the adapter it enters
JudgeStart(c, store, l) ==
    /\ jpc = "idle"
    /\ clause' = c
    /\ vectorstore' = store
    /\ llm' = l
    /\ UNCHANGED <<calls, raw>>
    /\ IF ~store.present
       THEN \* None has no similarity_search
            /\ exc' = [type |-> "AttributeError",
                       msg |-> <<"'NoneType' object has no attribute 'similarity_search'">>]
            /\ jpc' = "raised"
            /\ UNCHANGED <<context, result>>
       ELSE LET ctx == Context(SimilaritySearch(store, K))
            IN  /\ context' = ctx
                /\ UNCHANGED exc
                /\ IF ~l.present
                   THEN /\ result' = Judgment(NoneV, NoneV, NoneV, StrV(ctx))
                        /\ jpc' = "returned"
                   ELSE /\ jpc' = "direct"
                        /\ UNCHANGED result

\* a direct call whose string is not returned at once
CallDirectKeepsGoing(outcome, t) ==
    /\ jpc = "direct"
    /\ calls' = Append(calls, Called("direct", outcome, t))
    /\ UNCHANGED <<clause, vectorstore, llm, context>>
    /\ jpc' = "predict"
    /\ UNCHANGED <<raw, exc, result>>

\* lines 77-83: resp = llm(prompt)
CallDirect(outcome, t) ==
    /\ jpc = "direct"
    /\ calls' = Append(calls, Called("direct", outcome, t))
    /\ UNCHANGED <<clause, vectorstore, llm, context>>
    /\ IF outcome = "str"
       THEN AdapterReturns(Strip(t))
       ELSE /\ jpc' = "predict"
            /\ UNCHANGED <<raw, exc, result>>

\* lines 86-92: resp = llm.predict(prompt), when the backend has predict
CallPredict(outcome, t) ==
    /\ jpc = "predict"
    /\ UNCHANGED <<clause, vectorstore, llm, context>>
    /\ IF ~llm.hasPredict
       THEN /\ jpc' = "generate"
            /\ UNCHANGED <<calls, raw, exc, result>>
       ELSE /\ calls' = Append(calls, Called("predict", outcome, t))
            /\ IF outcome = "str"
               THEN AdapterReturns(Strip(t))
               ELSE /\ jpc' = "generate"
                    /\ UNCHANGED <<raw, exc, result>>

\* lines 95-106: gen = llm.generate([prompt]), when the backend has generate;
\* "str" is a result whose generations[0][0].text is a string, "nonstr" any
\* other result, returned as str(gen)
CallGenerate(outcome, t) ==
    /\ jpc = "generate"
    /\ UNCHANGED <<clause, vectorstore, llm, context>>
    /\ IF ~llm.hasGenerate
       THEN /\ jpc' = "fallback"
            /\ UNCHANGED <<calls, raw, exc, result>>
       ELSE /\ calls' = Append(calls, Called("generate", outcome, t))
            /\ IF outcome = "str"
               THEN AdapterReturns(Strip(t))
               ELSE IF outcome = "nonstr"
                    THEN AdapterReturns(t)
                    ELSE /\ jpc' = "fallback"
                         /\ UNCHANGED <<raw, exc, result>>

\* a fallback whose exception is not absorbed by the judge
CallFallbackPropagates(outcome, t) ==
    /\ jpc = "fallback"
    /\ UNCHANGED <<clause, vectorstore, llm, context>>
    /\ calls' = Append(calls, Called("direct", outcome, t))
    /\ IF outcome = "str"
       THEN AdapterReturns(Strip(t))
       ELSE IF outcome = "nonstr"
            THEN AdapterReturns(t)
            ELSE /\ exc' = LlmCallFailed(t)
                 /\ jpc' = "raised"
                 /\ UNCHANGED <<raw, result>>

\* a fallback that tries again when the call raises
CallFallbackRetries(outcome, t) ==
    /\ jpc = "fallback"
    /\ UNCHANGED <<clause, vectorstore, llm, context>>
    /\ calls' = Append(calls, Called("direct", outcome, t))
    /\ IF outcome = "str"
       THEN AdapterReturns(Strip(t))
       ELSE IF outcome = "nonstr"
            THEN AdapterReturns(t)
            ELSE /\ jpc' = "fallback"
                 /\ UNCHANGED <<raw, exc, result>>

\* lines 109-115: resp = llm.__call__(prompt), the direct invocation again
CallFallback(outcome, t) ==
    /\ jpc = "fallback"
    /\ UNCHANGED <<clause, vectorstore, llm, context>>
    /\ calls' = Append(calls, Called("direct", outcome, t))
    /\ IF outcome = "str"
       THEN AdapterReturns(Strip(t))
       ELSE IF outcome = "nonstr"
            THEN AdapterReturns(t)
            ELSE AdapterRaises(LlmCallFailed(t))

\* the caller takes the result (app.py lines 114-129) and may call again
JudgeReturn ==
    /\ jpc \in {"returned", "raised"}
    /\ jpc' = "idle"
    /\ clause' = ""
    /\ vectorstore' = NoStore
    /\ llm' = NoLlm
    /\ context' = <<>>
    /\ calls' = <<>>
    /\ raw' = NoneV
    /\ exc' = NoExc
    /\ result' = NoResult

\* what a backend call may do: raise, return a string, return something else
Outcomes ==
    {<<"raise", m>> : m \in BackendErrors}
        \cup {<<"str", t>> : t \in Texts}
        \cup {<<"nonstr", <<>>>>}

\* the same, where the non-string is stringified (str(gen), str(resp))
OutcomesStr ==
    {<<"raise", m>> : m \in BackendErrors}
        \cup {<<"str", t>> : t \in Texts}
        \cup {<<"nonstr", t>> : t \in Texts}

\* ---------------------------------------------------------- build / load
Callers == 1..NumCallers

HF_EMBEDDING_MODEL == "all-MiniLM-L6-v2"
Models == {HF_EMBEDDING_MODEL, "all-mpnet-base-v2"}

\* what may lie in the reference folder
FileNames == {"law.txt", "regs.PDF", "notes.md"}

NoFolder == [exists |-> FALSE, files |-> {}]
Folders == {NoFolder} \cup {[exists |-> TRUE, files |-> f] : f \in SUBSET FileNames}

\* fname.lower().endswith(ext), for the names of FileNames
LowerEndsWith(fname, ext) ==
    \/ ext = ".pdf" /\ fname = "regs.PDF"
    \/ ext = ".txt" /\ fname = "law.txt"

\* lines 29-38: PyPDFLoader gives one document per page (two pages here),
\* TextLoader one document per file, other files are skipped
LoadFile(fname) ==
    IF LowerEndsWith(fname, ".pdf")
    THEN {[source |-> fname, page |-> n] : n \in 1..2}
    ELSE IF LowerEndsWith(fname, ".txt")
         THEN {[source |-> fname, page |-> 0]}
         ELSE {}

LoadDocuments(files) == UNION {LoadFile(f) : f \in files}

\* line 45: every document here is shorter than chunk_size, one chunk each
SplitDocuments(docs) == docs

\* the vector of a chunk under an embedding model
Embed(m, chunk) == <<m, chunk>>

NoVs == [vectors |-> {}, docs |-> {}, model |-> ""]

\* line 48: FAISS.from_documents(chunks, embeddings)
FromDocs(chunks, m) ==
    [vectors |-> {Embed(m, c) : c \in chunks}, docs |-> chunks, model |-> m]

NoFile == [present |-> FALSE, vectors |-> {}, docs |-> {}]
NoIndex == [dir |-> FALSE, faiss |-> NoFile, pkl |-> NoFile]

\* what save_local writes: index.faiss holds the vectors, index.pkl the docstore
FaissFile(store) == [present |-> TRUE, vectors |-> store.vectors, docs |-> {}]
PklFile(store) == [present |-> TRUE, vectors |-> {}, docs |-> store.docs]

Fail(p, e) ==
    /\ bpc' = [bpc EXCEPT ![p] = "failed"]
    /\ berr' = [berr EXCEPT ![p] = e]

Goto(p, pc) ==
    /\ bpc' = [bpc EXCEPT ![p] = pc]
    /\ UNCHANGED berr

\* lines 17-22: build_vector_store entered (app.py line 29 passes the defaults)
BuildStart(p, m) ==
    /\ bpc[p] = "idle"
    /\ hf_model' = [hf_model EXCEPT ![p] = m]
    /\ UNCHANGED <<folder, index, vs>>
    /\ IF ~folder.exists
       THEN Fail(p, "FileNotFoundError: Legal refs folder not found")
       ELSE Goto(p, "embeddings")

\* lines 24-27: HuggingFaceEmbeddings(model_name=hf_model)
BuildEmbeddings(p, ok) ==
    /\ bpc[p] = "embeddings"
    /\ UNCHANGED <<folder, index, vs, hf_model>>
    /\ IF ok
       THEN Goto(p, "load_docs")
       ELSE Fail(p, "RuntimeError: Failed to initialize embeddings")

\* a build that prepares the index directory before it has looked at the corpus
BuildLoadDocsSavesFirst(p, ok) ==
    /\ bpc[p] = "load_docs"
    /\ UNCHANGED <<folder, vs, hf_model>>
    /\ index' = [dir |-> TRUE, faiss |-> NoFile, pkl |-> NoFile]
    /\ IF ~ok
       THEN Fail(p, "loader error")
       ELSE IF LoadDocuments(folder.files) = {}
            THEN Fail(p, "ValueError: No legal reference documents found")
            ELSE Goto(p, "from_documents")

\* lines 29-45: load, reject an empty corpus, split
BuildLoadDocs(p, ok) ==
    /\ bpc[p] = "load_docs"
    /\ UNCHANGED <<folder, index, vs, hf_model>>
    /\ IF ~ok
       THEN Fail(p, "loader error")
       ELSE IF LoadDocuments(folder.files) = {}
            THEN Fail(p, "ValueError: No legal reference documents found")
            ELSE Goto(p, "from_documents")

\* lines 47-50: the in-memory build
BuildFromDocuments(p, ok) ==
    /\ bpc[p] = "from_documents"
    /\ UNCHANGED <<folder, index, hf_model>>
    /\ IF ok
       THEN /\ vs' = [vs EXCEPT ![p] =
                        FromDocs(SplitDocuments(LoadDocuments(folder.files)), hf_model[p])]
            /\ Goto(p, "save_faiss")
       ELSE /\ UNCHANGED vs
            /\ Fail(p, "RuntimeError: Failed to build FAISS vectorstore")

\* lines 52-56, first half of save_local: the directory and index.faiss
BuildSaveFaiss(p, ok) ==
    /\ bpc[p] = "save_faiss"
    /\ UNCHANGED <<folder, vs, hf_model>>
    /\ IF ok
       THEN /\ index' = [index EXCEPT !.dir = TRUE, !.faiss = FaissFile(vs[p])]
            /\ Goto(p, "save_pkl")
       ELSE /\ UNCHANGED index
            /\ Fail(p, "RuntimeError: Failed to save FAISS vectorstore")

\* lines 53-57, second half of save_local: index.pkl, then return vs
BuildSavePkl(p, ok) ==
    /\ bpc[p] = "save_pkl"
    /\ UNCHANGED <<folder, vs, hf_model>>
    /\ IF ok
       THEN /\ index' = [index EXCEPT !.pkl = PklFile(vs[p])]
            /\ Goto(p, "built")
       ELSE /\ UNCHANGED index
            /\ Fail(p, "RuntimeError: Failed to save FAISS vectorstore")

\* lines 59-62: load_vector_store entered
LoadStart(p, m) ==
    /\ bpc[p] = "idle"
    /\ hf_model' = [hf_model EXCEPT ![p] = m]
    /\ UNCHANGED <<folder, index, vs>>
    /\ IF ~index.dir
       THEN Fail(p, "FileNotFoundError: FAISS vectorstore not found")
       ELSE Goto(p, "load_local")

\* lines 63-65: embeddings for hf_model, FAISS.load_local, return vs
LoadLocal(p, ok) ==
    /\ bpc[p] = "load_local"
    /\ UNCHANGED <<folder, index, hf_model>>
    /\ IF ok /\ index.faiss.present /\ index.pkl.present
       THEN /\ vs' = [vs EXCEPT ![p] = [vectors |-> index.faiss.vectors,
                                        docs |-> index.pkl.docs,
                                        model |-> hf_model[p]]]
            /\ Goto(p, "loaded")
       ELSE /\ UNCHANGED vs
            /\ Fail(p, "load error")

\* the caller has its store or its exception (app.py lines 30-33, 46-49)
Finish(p) ==
    /\ bpc[p] \in {"built", "loaded", "failed"}
    /\ bpc' = [bpc EXCEPT ![p] = "idle"]
    /\ berr' = [berr EXCEPT ![p] = ""]
    /\ vs' = [vs EXCEPT ![p] = NoVs]
    /\ hf_model' = [hf_model EXCEPT ![p] = ""]
    /\ UNCHANGED <<folder, index>>

BIdle ==
    /\ folder = NoFolder
    /\ index = NoIndex
    /\ bpc = [p \in Callers |-> "idle"]
    /\ hf_model = [p \in Callers |-> ""]
    /\ vs = [p \in Callers |-> NoVs]
    /\ berr = [p \in Callers |-> ""]

BInit ==
    /\ folder \in Folders
    /\ index = NoIndex
    /\ bpc = [p \in Callers |-> "idle"]
    /\ hf_model = [p \in Callers |-> ""]
    /\ vs = [p \in Callers |-> NoVs]
    /\ berr = [p \in Callers |-> ""]

\* no session has run its script yet
SInit ==
    /\ spc = [p \in Callers |-> "waiting"]
    /\ cache = [p \in Callers |-> [set |-> FALSE, present |-> FALSE, store |-> NoVs]]
    /\ msg = [p \in Callers |-> ""]
    /\ rag = [p \in Callers |-> "none"]
    /\ rendered = [p \in Callers |-> FALSE]

Init == JInit /\ BIdle /\ SInit

Next ==
    \/ /\ jpc = "idle"
       /\ \E c \in Clauses, store \in Stores \cup {NoStore}, l \in Llms \cup {NoLlm} :
              JudgeStart(c, store, l)
       /\ UNCHANGED <<bvars, svars>>
    \/ /\ jpc = "direct"
       /\ \E o \in Outcomes : CallDirect(o[1], o[2])
       /\ UNCHANGED <<bvars, svars>>
    \/ /\ jpc = "predict"
       /\ \E o \in Outcomes : CallPredict(o[1], o[2])
       /\ UNCHANGED <<bvars, svars>>
    \/ /\ jpc = "generate"
       /\ \E o \in OutcomesStr : CallGenerate(o[1], o[2])
       /\ UNCHANGED <<bvars, svars>>
    \/ /\ jpc = "fallback"
       /\ \E o \in OutcomesStr : CallFallback(o[1], o[2])
       /\ UNCHANGED <<bvars, svars>>
    \/ JudgeReturn /\ UNCHANGED <<bvars, svars>>

Spec == Init /\ [][Next]_vars

InitBuild == JInit /\ BInit /\ SInit

NextBuild ==
    \/ \E p \in Callers, m \in Models : BuildStart(p, m) /\ UNCHANGED <<jvars, svars>>
    \/ \E p \in Callers, ok \in BOOLEAN : BuildEmbeddings(p, ok) /\ UNCHANGED <<jvars, svars>>
    \/ \E p \in Callers, ok \in BOOLEAN : BuildLoadDocs(p, ok) /\ UNCHANGED <<jvars, svars>>
    \/ \E p \in Callers, ok \in BOOLEAN : BuildFromDocuments(p, ok) /\ UNCHANGED <<jvars, svars>>
    \/ \E p \in Callers, ok \in BOOLEAN : BuildSaveFaiss(p, ok) /\ UNCHANGED <<jvars, svars>>
    \/ \E p \in Callers, ok \in BOOLEAN : BuildSavePkl(p, ok) /\ UNCHANGED <<jvars, svars>>
    \/ \E p \in Callers, m \in Models : LoadStart(p, m) /\ UNCHANGED <<jvars, svars>>
    \/ \E p \in Callers, ok \in BOOLEAN : LoadLocal(p, ok) /\ UNCHANGED <<jvars, svars>>
    \/ \E p \in Callers : Finish(p) /\ UNCHANGED <<jvars, svars>>

SpecBuild == InitBuild /\ [][NextBuild]_vars

\* -------------------------------------------------------------- sessions
\* One script run of app.py per user interaction of a session: the sidebar
\* (a rebuild when the button was clicked), the cached store, the upload.
\* load_checklists (line 40) is taken to succeed.

Unset == [set |-> FALSE, present |-> FALSE, store |-> NoVs]
CachedNone == [set |-> TRUE, present |-> FALSE, store |-> NoVs]
Cached(store) == [set |-> TRUE, present |-> TRUE, store |-> store]

ResetCall(p) ==
    /\ bpc' = [bpc EXCEPT ![p] = "idle"]
    /\ berr' = [berr EXCEPT ![p] = ""]
    /\ vs' = [vs EXCEPT ![p] = NoVs]
    /\ hf_model' = [hf_model EXCEPT ![p] = ""]

\* lines 22-29: a script run starts; the button can be clicked only on a page
\* an earlier run has put up, and a click enters build_vector_store()
RunStart(p, clicked) ==
    /\ spc[p] = "waiting"
    /\ clicked => rendered[p]
    /\ msg' = [msg EXCEPT ![p] = ""]
    /\ rag' = [rag EXCEPT ![p] = "none"]
    /\ UNCHANGED <<cache, rendered>>
    /\ IF clicked
       THEN /\ BuildStart(p, HF_EMBEDDING_MODEL)
            /\ spc' = [spc EXCEPT ![p] = "building"]
       ELSE /\ spc' = [spc EXCEPT ![p] = "cache"]
            /\ UNCHANGED bvars

\* a rebuild that keeps the store it built in the session
ButtonDoneCaches(p) ==
    /\ spc[p] = "building"
    /\ bpc[p] \in {"built", "failed"}
    /\ msg' = [msg EXCEPT ![p] = IF bpc[p] = "built" THEN "success" ELSE "error"]
    /\ cache' = [cache EXCEPT ![p] = IF bpc[p] = "built" THEN Cached(vs[p]) ELSE @]
    /\ ResetCall(p)
    /\ spc' = [spc EXCEPT ![p] = "cache"]
    /\ UNCHANGED <<folder, index, rag, rendered>>

\* lines 29-33: build_vector_store() returned or raised; its store is dropped
ButtonDone(p) ==
    /\ spc[p] = "building"
    /\ bpc[p] \in {"built", "failed"}
    /\ msg' = [msg EXCEPT ![p] = IF bpc[p] = "built" THEN "success" ELSE "error"]
    /\ ResetCall(p)
    /\ spc' = [spc EXCEPT ![p] = "cache"]
    /\ UNCHANGED <<folder, index, cache, rag, rendered>>

\* lines 43-51: the first time, load the index if its directory exists
CacheCheck(p) ==
    /\ spc[p] = "cache"
    /\ UNCHANGED <<msg, rag, rendered>>
    /\ IF cache[p].set
       THEN /\ spc' = [spc EXCEPT ![p] = "upload"]
            /\ UNCHANGED <<cache, bvars>>
       ELSE IF index.dir
            THEN /\ LoadStart(p, HF_EMBEDDING_MODEL)
                 /\ spc' = [spc EXCEPT ![p] = "loading"]
                 /\ UNCHANGED cache
            ELSE /\ cache' = [cache EXCEPT ![p] = CachedNone]
                 /\ spc' = [spc EXCEPT ![p] = "upload"]
                 /\ UNCHANGED bvars

\* lines 45-49: load_vector_store() returned or raised
CacheLoaded(p) ==
    /\ spc[p] = "loading"
    /\ bpc[p] \in {"loaded", "failed"}
    /\ cache' = [cache EXCEPT ![p] = IF bpc[p] = "loaded" THEN Cached(vs[p]) ELSE CachedNone]
    /\ ResetCall(p)
    /\ spc' = [spc EXCEPT ![p] = "upload"]
    /\ UNCHANGED <<folder, index, msg, rag, rendered>>

\* lines 53, 68-129, 172-173: with files uploaded, the RAG checks run on the
\* cached store or are skipped when it is None; the run ends
Upload(p, uploaded) ==
    /\ spc[p] = "upload"
    /\ rag' = [rag EXCEPT ![p] = IF ~uploaded THEN "none"
                                 ELSE IF cache[p].present THEN "checked" ELSE "skipped"]
    /\ rendered' = [rendered EXCEPT ![p] = TRUE]
    /\ spc' = [spc EXCEPT ![p] = "waiting"]
    /\ UNCHANGED <<cache, msg, bvars>>

InitSession == JInit /\ BInit /\ SInit

NextSession ==
    \/ \E p \in Callers, clicked \in BOOLEAN : RunStart(p, clicked) /\ UNCHANGED jvars
    \/ \E p \in Callers, ok \in BOOLEAN : BuildEmbeddings(p, ok) /\ UNCHANGED <<jvars, svars>>
    \/ \E p \in Callers, ok \in BOOLEAN : BuildLoadDocs(p, ok) /\ UNCHANGED <<jvars, svars>>
    \/ \E p \in Callers, ok \in BOOLEAN : BuildFromDocuments(p, ok) /\ UNCHANGED <<jvars, svars>>
    \/ \E p \in Callers, ok \in BOOLEAN : BuildSaveFaiss(p, ok) /\ UNCHANGED <<jvars, svars>>
    \/ \E p \in Callers, ok \in BOOLEAN : BuildSavePkl(p, ok) /\ UNCHANGED <<jvars, svars>>
    \/ \E p \in Callers : ButtonDone(p) /\ UNCHANGED jvars
    \/ \E p \in Callers : CacheCheck(p) /\ UNCHANGED jvars
    \/ \E p \in Callers, ok \in BOOLEAN : LoadLocal(p, ok) /\ UNCHANGED <<jvars, svars>>
    \/ \E p \in Callers : CacheLoaded(p) /\ UNCHANGED jvars
    \/ \E p \in Callers, uploaded \in BOOLEAN : Upload(p, uploaded) /\ UNCHANGED jvars

SpecSession == InitSession /\ [][NextSession]_vars

\* ---------------------------------------------------------------- claims
BothPresent == vectorstore.present /\ llm.present

Last(q) == q[Len(q)]

Count(conv) == Cardinality({i \in 1..Len(calls) : calls[i].conv = conv})

\* the fragment texts, each followed by its source tag, one after the other
RECURSIVE TaggedConcat(_)
TaggedConcat(docs) ==
    IF docs = <<>> THEN <<>>
    ELSE Head(docs).page_content
             \o <<"\n\n[SOURCE: ", IF Head(docs).has_source THEN Head(docs).source ELSE "unknown", "]">>
             \o TaggedConcat(Tail(docs))

TopK(docs) == [i \in {j \in 1..Len(docs) : j <= K} |-> docs[i]]

WithoutSep(text) == SelectSeq(text, LAMBDA c : c # SEP)

\* the text between the first "{" and the last "}" is a JSON object
ParsesAsObject(text) ==
    \E i, j \in 1..Len(text) :
        /\ i < j
        /\ text[i] = LB /\ \A h \in 1..(i - 1) : text[h] # LB
        /\ text[j] = RB /\ \A h \in (j + 1)..Len(text) : text[h] # RB
        /\ LET inner == SelectSeq(SubSeq(text, i + 1, j - 1), LAMBDA c : c # WS)
           IN  inner = <<>> \/ (Len(inner) = 1 /\ inner[1] \in {M_WELL, M_BADC})

\* C1: with a store and a backend, the judge never raises because generation
\* or parsing failed: whatever the backend does on each calling convention,
\* the call makes at most four backend calls and ends by returning.
C1_NeverRaises ==
    BothPresent =>
        /\ jpc \in {"direct", "predict", "generate", "fallback", "returned"}
        /\ Len(calls) <= 4
        /\ (jpc = "fallback" => Len(calls) <= 3)
        /\ (exc.type # "none" => jpc = "returned" /\ result.compliant = NoneV)

\* C1 witness: every convention raised and the judge still returned
C1_Witness ==
    /\ jpc = "returned" /\ BothPresent
    /\ Len(calls) = 4
    /\ \A i \in 1..4 : calls[i].outcome = "raise"
    /\ exc.type = "RuntimeError"

\* C2: with a store and a backend, when the adapter failed or the text from
\* the first "{" to the last "}" is no JSON object, the judge returns
\* compliant = None, issue = the raw response (the error message when the
\* adapter failed), suggestion = None, citation = the retrieved context.
C2_FallbackJudgment ==
    (jpc = "returned" /\ BothPresent) =>
        /\ context = Context(SimilaritySearch(vectorstore, K))
        /\ exc.type # "none" =>
               /\ exc.msg = <<"LLM call failed: ">> \o Last(calls).text
               /\ result = Judgment(NoneV, StrV(<<"LLM error: ">> \o exc.msg),
                                    NoneV, StrV(context))
        /\ (exc.type = "none" /\ ~ParsesAsObject(raw.v)) =>
               result = Judgment(NoneV, raw, NoneV, StrV(context))
        /\ raw = StrV(<<PROSE>>) =>
               result = Judgment(NoneV, StrV(<<PROSE>>), NoneV, StrV(context))

\* C2 witness: the backend answered "I cannot assess this." over a non-empty store
C2_Witness ==
    /\ jpc = "returned" /\ BothPresent
    /\ raw = StrV(<<PROSE>>)
    /\ vectorstore.docs # <<>>
    /\ result.issue = StrV(<<PROSE>>)

\* C3: called with no store, the judge returns the judgment whose four fields
\* are None / absent, and does not raise.
C3_AbsentStoreReturns ==
    (~vectorstore.present /\ jpc \in {"returned", "raised"}) =>
        /\ jpc = "returned"
        /\ result = Judgment(NoneV, NoneV, NoneV, NoneV)

\* C4: with a store and no backend, the judge returns compliant, issue and
\* suggestion None and citation = the top-k fragment texts each followed by
\* its source tag; the citation is non-empty when the store is non-empty,
\* and no backend call is made.
C4_EvidenceOnly ==
    /\ ~llm.present => calls = <<>>
    /\ (jpc = "returned" /\ vectorstore.present /\ ~llm.present) =>
           /\ result.compliant = NoneV /\ result.issue = NoneV /\ result.suggestion = NoneV
           /\ DOMAIN result = {"compliant", "issue", "suggestion", "citation"}
           /\ result.citation.t = "str"
           /\ WithoutSep(result.citation.v) = TaggedConcat(TopK(vectorstore.docs))
           /\ (vectorstore.docs # <<>> => result.citation.v # <<>>)

\* C4 witness: evidence-only mode over a store with more than k fragments
C4_Witness ==
    /\ jpc = "returned" /\ vectorstore.present /\ ~llm.present
    /\ Len(vectorstore.docs) > K
    /\ result.citation.v # <<>>

IsComplianceJudgment(r) ==
    /\ DOMAIN r = {"compliant", "issue", "suggestion", "citation"}
    /\ r.compliant.t \in {"bool", "null"}
    /\ r.issue.t \in {"str", "null"}
    /\ r.suggestion.t \in {"str", "null"}
    /\ r.citation.t = "str"

\* C5: every value the judge returns (store present) is a ComplianceJudgment:
\* the four fields, compliant a boolean or None, issue and suggestion a string
\* or None, citation a string.
C5_AlwaysJudgment ==
    (jpc = "returned" /\ vectorstore.present) => IsComplianceJudgment(result)

\* C6: the adapter calls direct, then predict, then generate; a convention is
\* called only after every earlier one raised or returned a non-string, no
\* call follows one that returned a string, and the text returned is the
\* (stripped) text of the call that returned a string.
C6_FixedOrder ==
    /\ calls # <<>> => calls[1].conv = "direct"
    /\ \A i, j \in 1..Len(calls) :
           i < j =>
               /\ calls[j].conv = "predict" => calls[i].conv = "direct"
               /\ calls[j].conv = "generate" => calls[i].conv \in {"direct", "predict"}
               /\ calls[i].outcome # "str"
               /\ calls[i].conv = "generate" => calls[i].outcome = "raise"
    /\ \A j \in 1..Len(calls) :
           (calls[j].conv = "generate" /\ llm.hasPredict) =>
               \E i \in 1..(j - 1) : calls[i].conv = "predict"
    /\ (calls # <<>> /\ Last(calls).outcome = "str") =>
           /\ jpc = "returned"
           /\ raw = StrV(Strip(Last(calls).text))

\* C6 witness: direct and predict failed, generate returned a text
C6_Witness ==
    /\ jpc = "returned"
    /\ Len(calls) = 3
    /\ calls[1].conv = "direct" /\ calls[2].conv = "predict" /\ calls[3].conv = "generate"
    /\ calls[3].outcome = "str"
    /\ raw.v # <<>>

\* C7 (as claimed): within one adapter call every convention is invoked at
\* most once.
C7_AtMostOnce ==
    \A conv \in {"direct", "predict", "generate"} : Count(conv) <= 1

\* C7 (amended): predict and generate are invoked at most once each; direct
\* invocation at most twice, the second time only as the last call, after
\* every earlier call raised or returned a non-string.
C7_AtMostOnceButDirect ==
    /\ Count("predict") <= 1
    /\ Count("generate") <= 1
    /\ Count("direct") <= 2
    /\ Count("direct") = 2 =>
           /\ calls[1].conv = "direct" /\ Last(calls).conv = "direct"
           /\ \A i \in 1..(Len(calls) - 1) : calls[i].outcome # "str"
           /\ \A i \in 1..(Len(calls) - 1) :
                  calls[i].conv = "generate" => calls[i].outcome = "raise"

\* C7 witness: the direct invocation was made a second time
C7_Witness ==
    /\ jpc = "returned"
    /\ Count("direct") = 2
    /\ Count("predict") = 1 /\ Count("generate") = 1

PreSave == {"idle", "embeddings", "load_docs", "from_documents", "load_local"}
Saving == {"save_faiss", "save_pkl"}
Building == {"embeddings", "load_docs", "from_documents", "save_faiss", "save_pkl"}

NoSaveFailures ==
    {"FileNotFoundError: Legal refs folder not found",
     "RuntimeError: Failed to initialize embeddings",
     "ValueError: No legal reference documents found",
     "RuntimeError: Failed to build FAISS vectorstore"}

\* C8: the persisted index is written only by a build whose loading, chunking
\* and in-memory construction have succeeded; a step of a build that has not
\* reached its save, and in particular one that ends it with a missing-folder,
\* embedding-init, empty-corpus or index-build failure, leaves the index as it was.
C8_NoPartialPersist ==
    [][/\ \A p \in Callers :
              (bpc[p] \in PreSave /\ bpc'[p] # bpc[p]) => index' = index
       /\ \A p \in Callers :
              (bpc'[p] = "failed" /\ bpc[p] # "failed" /\ berr'[p] \in NoSaveFailures)
                  => index' = index
       /\ index' # index =>
              \E p \in Callers :
                  /\ bpc[p] \in Saving /\ bpc'[p] # bpc[p]
                  /\ vs[p] = FromDocs(LoadDocuments(folder.files), hf_model[p])
                  /\ vs[p].docs # {}]_vars

\* C8 witness: a build over an empty folder ended with the empty-corpus error
\* and there are no index files
C8_Witness ==
    \E p \in Callers :
        /\ bpc[p] = "failed"
        /\ berr[p] = "ValueError: No legal reference documents found"
        /\ folder.exists /\ folder.files = {}
        /\ index = NoIndex

\* C9: at most one caller is between the start of its build and the end of
\* its save.
C9_BuildsExclusive ==
    Cardinality({p \in Callers : bpc[p] \in Building}) <= 1

\* C10: a load returns a store only when the index was built with the
\* embedding model identifier the load was given.
C10_MismatchRejected ==
    \A p \in Callers :
        bpc[p] = "loaded" => \A v \in vs[p].vectors : v[1] = hf_model[p]

IndexComplete == index.dir /\ index.faiss.present /\ index.pkl.present

\* C11: within a session the cached store handle is set once, during the
\* first script run (to the loaded store, or to None when the index directory
\* is missing or the load fails), and nothing changes it afterwards: a rebuild
\* through the button leaves it as it was, so a session whose handle is None
\* skips the RAG checks on every upload, also once the index is built and saved.
C11_CacheSetOnce ==
    [][\A p \in Callers :
           /\ cache'[p] # cache[p] =>
                  /\ ~cache[p].set /\ cache'[p].set
                  /\ ~rendered[p]
                  /\ \/ spc[p] = "cache" /\ ~index.dir /\ cache'[p] = CachedNone
                     \/ spc[p] = "loading" /\ bpc[p] = "failed" /\ cache'[p] = CachedNone
                     \/ /\ spc[p] = "loading" /\ bpc[p] = "loaded"
                        /\ cache'[p] = Cached(vs[p])
                        /\ vs[p].docs # {}
           /\ (spc[p] = "building" \/ spc'[p] = "building") => cache'[p] = cache[p]
           /\ rendered[p] => cache[p].set
           /\ rag'[p] = "checked" => cache'[p].present
           /\ (rag'[p] # "none" /\ cache'[p] = CachedNone) => rag'[p] = "skipped"]_vars

\* C11 witness: the session's own rebuild succeeded, the index is complete on
\* disk, and the same run skipped the RAG checks because the handle is None
C11_Witness ==
    \E p \in Callers :
        /\ msg[p] = "success"
        /\ IndexComplete
        /\ cache[p] = CachedNone
        /\ rag[p] = "skipped"

====
